---- MODULE Spec2Model ----
(***************************************************************************)
(* A model of app.py of ai_fitness_coach: the metrics calculator           *)
(* (ferramenta_matematica_treino), the plan scheduler (generate_plan with  *)
(* its nested pick_exercises), the web search helper (search_web) and the  *)
(* pipeline of main.                                                       *)
(*                                                                         *)
(* Strings that the program trims or lower-cases (goal, experience level)  *)
(* are sequences of one-character strings, so that strip() and lower()     *)
(* are computed character by character.  Other strings are TLA+ strings.   *)
(***************************************************************************)
EXTENDS Integers, Sequences, FiniteSets, TLC

VARIABLES
    \* generate_plan: locals of one call
    gpc, goal, freq, weeks, week_num, day, sessions_generated,
    training_weeks, week_sessions, plan_payload,
    \* state of the process-wide random source (module random)
    rng,
    \* the profile generate_plan is called with
    user_profile,
    \* ferramenta_matematica_treino: one call (position, arguments, result)
    fpc, fm_args, fm_result,
    \* search_web: one call (position, arguments with the service's answer, result)
    spc, sw_args, sw_result,
    \* main: position in the script, the form's values, the locals analises,
    \* research_payload and plan_markdown, the calls made to the page (st.*),
    \* the number of the script run and the plan structure of the first run
    mpc, form, analises, research_payload, plan_markdown, shown, run, first_structure

genVars == <<gpc, goal, freq, weeks, week_num, day, sessions_generated,
             training_weeks, week_sessions, plan_payload>>

planVars == <<genVars, rng, user_profile>>

metVars == <<fpc, fm_args, fm_result>>

\* what the steps of generate_plan leave alone
webVars == <<spc, sw_args, sw_result>>

mainVars == <<mpc, form, analises, research_payload, plan_markdown, shown, run,
              first_structure>>

otherThanPlan == <<metVars, webVars, mainVars>>

None == "<None>"

\* an optional value: absent, or present with a value
Absent == <<>>

Some(x) == <<x>>

(***************************************************************************)
(* Bounds of the model.                                                    *)
(***************************************************************************)
MaxFreq == 13
MaxSeed == 12

(***************************************************************************)
(* Character-level strings.                                                *)
(***************************************************************************)
HIPERTROFIA == <<"h","i","p","e","r","t","r","o","f","i","a">>
EMAGRECIMENTO == <<"e","m","a","g","r","e","c","i","m","e","n","t","o">>
FORCA == <<"f","o","r","c","a">>
CONDICIONAMENTO == <<"c","o","n","d","i","c","i","o","n","a","m","e","n","t","o">>
INICIANTE == <<"i","n","i","c","i","a","n","t","e">>
INTERMEDIARIO == <<"i","n","t","e","r","m","e","d","i","a","r","i","o">>
AVANCADO == <<"a","v","a","n","c","a","d","o">>

RecognizedGoals == {HIPERTROFIA, EMAGRECIMENTO, FORCA, CONDICIONAMENTO}

(***************************************************************************)
(* The process-wide random source.  random is a deterministic generator    *)
(* whose state is unknown when a request starts: the state is drawn from   *)
(* a bounded set of seeds and advanced on every draw.                      *)
(***************************************************************************)
NextRng(r) == (r * 25173 + 13849) % 65536

SeedState(s) == NextRng(NextRng((s * 7919 + 104729) % 65536))

\* random._randbelow(n): a value in 0..n-1 read off the generator state
Randbelow(n, r) == (r \div 256) % n

(***************************************************************************)
(* generate_plan: the catalog (exercise_dict, cardio_exercises) and the    *)
(* split templates.                                                        *)
(***************************************************************************)
total_sessions == 12

exercise_dict ==
    [chest |-> <<"Supino reto com barra", "Supino inclinado com halteres",
                 "Crucifixo na máquina", "Peck deck", "Flexões">>,
     triceps |-> <<"Tríceps pulley", "Tríceps testa", "Mergulho banco",
                   "Tríceps corda", "Kickback">>,
     back |-> <<"Puxada frontal", "Remada curvada com barra",
                "Remada unilateral com haltere", "Pulldown",
                "Levantamento terra">>,
     biceps |-> <<"Rosca direta com barra", "Rosca alternada", "Rosca martelo",
                  "Rosca concentrada", "Rosca Scott">>,
     legs |-> <<"Agachamento livre", "Leg press", "Cadeira extensora",
                "Cadeira flexora", "Afundo com halteres", "Panturrilha em pé">>,
     shoulders |-> <<"Desenvolvimento com barra", "Desenvolvimento com halteres",
                     "Elevação lateral", "Elevação frontal", "Remada alta">>,
     glutes |-> <<"Agachamento sumô", "Peso morto stiff", "Glute bridge",
                  "Cadeira abdutora", "Elevação de quadril">>,
     abs |-> <<"Prancha", "Abdominal supra", "Elevação de pernas",
               "Abdominal oblíquo", "Prancha lateral">>]

cardio_exercises ==
    <<"Burpees", "Mountain climbers", "Agachamento com salto", "Polichinelos",
      "Corrida estacionária", "Pular corda", "Kettlebell swing",
      "Clean and press com halteres leves", "Flexões", "Abdominal bicicleta">>

hypertrophy_splits ==
    << [name |-> "Treino A - Peito e Tríceps", muscles |-> <<"chest", "triceps">>,
        focus |-> "Peito e Tríceps"],
       [name |-> "Treino B - Costas e Bíceps", muscles |-> <<"back", "biceps">>,
        focus |-> "Costas e Bíceps"],
       [name |-> "Treino C - Pernas e Ombros", muscles |-> <<"legs", "shoulders">>,
        focus |-> "Pernas e Ombros"],
       [name |-> "Treino D - Peito e Costas", muscles |-> <<"chest", "back">>,
        focus |-> "Peito e Costas"],
       [name |-> "Treino E - Pernas e Glúteos", muscles |-> <<"legs", "glutes">>,
        focus |-> "Pernas e Glúteos"],
       [name |-> "Treino F - Ombros e Braços",
        muscles |-> <<"shoulders", "biceps", "triceps">>,
        focus |-> "Ombros e Braços"] >>

strength_splits ==
    << [name |-> "Treino A - Agachamento", muscles |-> <<"legs", "glutes", "back">>,
        focus |-> "Força em Agachamento"],
       [name |-> "Treino B - Supino e Press",
        muscles |-> <<"chest", "shoulders", "triceps">>,
        focus |-> "Força em Supino"],
       [name |-> "Treino C - Deadlift", muscles |-> <<"legs", "back">>,
        focus |-> "Força em Deadlift"],
       [name |-> "Treino D - Full Body",
        muscles |-> <<"legs", "back", "chest", "shoulders">>,
        focus |-> "Força Total"] >>

conditioning_splits ==
    << [name |-> "Circuito HIIT", muscles |-> <<>>, focus |-> "Alta intensidade"],
       [name |-> "Circuito de Resistência", muscles |-> <<>>,
        focus |-> "Resistência Muscular"],
       [name |-> "Circuito Cardio e Força", muscles |-> <<>>,
        focus |-> "Cardio e Força"],
       [name |-> "Circuito Funcional", muscles |-> <<>>, focus |-> "Funcional"] >>

emagrecimento_splits ==
    << [name |-> "Circuito A", muscles |-> <<>>, focus |-> "Circuito"],
       [name |-> "Circuito B", muscles |-> <<>>, focus |-> "Circuito"],
       [name |-> "Circuito C", muscles |-> <<>>, focus |-> "Circuito"],
       [name |-> "Circuito D", muscles |-> <<>>, focus |-> "Circuito"] >>


(***************************************************************************)
(* random.sample(population, k): k draws without replacement from a copy   *)
(* of the population (the drawn slot is refilled with the last live one).  *)
(* random.shuffle(x): Fisher-Yates from the last index down.               *)
(* Both return the value and the advanced generator state.                 *)
(***************************************************************************)
RECURSIVE SampleLoop(_, _, _, _, _, _)
SampleLoop(pool, n, k, i, result, r) ==
    IF i >= k THEN [val |-> result, rng |-> r]
    ELSE LET j == Randbelow(n - i, r) + 1
         IN SampleLoop([pool EXCEPT ![j] = pool[n - i]], n, k, i + 1,
                       Append(result, pool[j]), NextRng(r))

random_sample(population, k, r) ==
    SampleLoop(population, Len(population), k, 0, <<>>, r)

RECURSIVE ShuffleLoop(_, _, _)
ShuffleLoop(x, i, r) ==
    IF i < 2 THEN [val |-> x, rng |-> r]
    ELSE LET j == Randbelow(i, r) + 1
         IN ShuffleLoop([x EXCEPT ![i] = x[j], ![j] = x[i]], i - 1, NextRng(r))

random_shuffle(x, r) == ShuffleLoop(x, Len(x), r)

Min(a, b) == IF a < b THEN a ELSE b

(***************************************************************************)
(* pick_exercises(muscles, obj)                                            *)
(***************************************************************************)
\* exercise_dict.get(muscle, [])
ChoicesFor(muscle) ==
    IF muscle \in DOMAIN exercise_dict THEN exercise_dict[muscle] ELSE <<>>

\* mutant: the cut to 6 exercises is left out
Truncate_none(exercises) == exercises

\* exercises[:6]
Truncate(exercises) == SubSeq(exercises, 1, Min(6, Len(exercises)))

RECURSIVE PickMuscles(_, _, _, _)
PickMuscles(muscles, idx, exercises, r) ==
    IF idx > Len(muscles) THEN [val |-> exercises, rng |-> r]
    ELSE LET choices == ChoicesFor(muscles[idx])
         IN IF choices # <<>>
            THEN LET selected == random_sample(choices, Min(2, Len(choices)), r)
                 IN PickMuscles(muscles, idx + 1, exercises \o selected.val,
                                selected.rng)
            ELSE PickMuscles(muscles, idx + 1, exercises, r)

\* mutant: the goal test never matches, every goal gets the circuit branch
pick_exercises_cardioAlways(muscles, obj, r) ==
    random_sample(cardio_exercises, 5, r)

pick_exercises(muscles, obj, r) ==
    IF obj \in {HIPERTROFIA, FORCA}
    THEN LET picked == PickMuscles(muscles, 1, <<>>, r)
             shuffled == random_shuffle(picked.val, picked.rng)
         IN [val |-> Truncate(shuffled.val), rng |-> shuffled.rng]
    ELSE random_sample(cardio_exercises, 5, r)

(***************************************************************************)
(* generate_plan: the body of the scheduling loop.                         *)
(***************************************************************************)
\* mutant: the week count rounds down
WeeksFor_floor(f) == total_sessions \div f

\* weeks = (total_sessions + freq - 1) // freq
WeeksFor(f) == (total_sessions + f - 1) \div f

\* mutant: the stop test is off by one
ReachedTotal_offByOne(n) == n > total_sessions

\* sessions_generated >= total_sessions
ReachedTotal(n) == n >= total_sessions

\* the if/elif chain that selects the goal's split list
SplitsOf(g) ==
    IF g = HIPERTROFIA THEN hypertrophy_splits
    ELSE IF g = FORCA THEN strength_splits
    ELSE IF g = CONDICIONAMENTO THEN conditioning_splits
    ELSE emagrecimento_splits

SelectSplit(g, k) == SplitsOf(g)[(k % Len(SplitsOf(g))) + 1]

\* mutant: the last two branches of the chain are exchanged
Prescription_swapped(g, ex) ==
    IF g = HIPERTROFIA
    THEN [exercise |-> ex, sets |-> 4, reps |-> "8-12", rest |-> "60-90s", notes |-> ""]
    ELSE IF g = FORCA
    THEN [exercise |-> ex, sets |-> 4, reps |-> "4-6", rest |-> "2-3min", notes |-> ""]
    ELSE IF g = EMAGRECIMENTO
    THEN [exercise |-> ex, sets |-> 3, reps |-> "10-15", rest |-> "30-60s", notes |-> ""]
    ELSE [exercise |-> ex, sets |-> 3, reps |-> "12-15", rest |-> "30s", notes |-> ""]

\* the if/elif chain that builds one entry of ex_list
Prescription(g, ex) ==
    IF g = HIPERTROFIA
    THEN [exercise |-> ex, sets |-> 4, reps |-> "8-12", rest |-> "60-90s", notes |-> ""]
    ELSE IF g = FORCA
    THEN [exercise |-> ex, sets |-> 4, reps |-> "4-6", rest |-> "2-3min", notes |-> ""]
    ELSE IF g = EMAGRECIMENTO
    THEN [exercise |-> ex, sets |-> 3, reps |-> "12-15", rest |-> "30s", notes |-> ""]
    ELSE [exercise |-> ex, sets |-> 3, reps |-> "10-15", rest |-> "30-60s", notes |-> ""]

\* the session built from a split, with the generator state after the picks
BuildSession(g, split, d, r) ==
    LET exercises == pick_exercises(split.muscles, g, r)
        ex_list == [i \in 1..Len(exercises.val) |-> Prescription(g, exercises.val[i])]
    IN [session |-> [day |-> d, name |-> split.name, focus |-> split.focus,
                     resumo |-> "", exercises |-> ex_list, conditioning |-> None,
                     mobility |-> None, progression |-> None],
        rng |-> exercises.rng]

\* mutant: the template index restarts with every week
SessionAt_weekReset(g, k, d, r) == BuildSession(g, SelectSplit(g, d - 1), d, r)

\* the session emitted for day slot d when k sessions were emitted before it
SessionAt(g, k, d, r) == BuildSession(g, SelectSplit(g, k), d, r)

PlanPayload(g, w, tw) ==
    [overview |-> [primary_goal |-> g, focus_points |-> <<g>>,
                   macrocycle_length_weeks |-> w],
     guidelines |-> <<"Realize um aquecimento de 5-10 minutos antes das sessões",
                      "Mantenha-se hidratado durante todo o treino",
                      "Foque na execução correta dos movimentos">>,
     training_weeks |-> tw,
     recovery |-> <<"Durma pelo menos 7-8 horas por noite",
                    "Inclua alongamentos após os treinos",
                    "Faça dias de descanso ativo conforme necessário">>,
     nutrition_tips |-> <<"Ajuste sua alimentação de acordo com o objetivo",
                          "Inclua proteínas magras e carboidratos complexos",
                          "Beba bastante água">>,
     progression_strategy |->
        "Aumente gradualmente a carga ou repetições a cada semana conforme se sentir confortável."]

\* the entry appended to training_weeks; focus is f"Semana de {goal}"
WeekEntry(wn, g, sessions) ==
    [week |-> wn, focus |-> <<"Semana de ">> \o g, sessions |-> sessions]

(***************************************************************************)
(* generate_plan as a function of the profile and the generator state:     *)
(* the two loops run to completion.  main calls it in one step.            *)
(***************************************************************************)
\* for day in range(1, freq + 1), from slot d on, k sessions emitted so far
RECURSIVE DaySlots(_, _, _, _, _, _)
RECURSIVE WeekLoop(_, _, _, _, _, _, _)

\* lines 443-444: the session built for slot d is appended, the count grows
AfterSession(g, f, d, k, sessions, built) ==
    DaySlots(g, f, d + 1, k + 1, Append(sessions, built.session), built.rng)

DaySlots(g, f, d, k, sessions, r) ==
    IF d > f \/ ReachedTotal(k)
    THEN [sessions |-> sessions, count |-> k, rng |-> r]
    ELSE AfterSession(g, f, d, k, sessions, SessionAt(g, k, d, r))

\* lines 445-453: the week is appended, the loop stops at the total
AfterDays(g, f, w, wn, tw, slots) ==
    IF ReachedTotal(slots.count)
    THEN [training_weeks |-> Append(tw, WeekEntry(wn, g, slots.sessions)),
          rng |-> slots.rng]
    ELSE WeekLoop(g, f, w, wn + 1, slots.count,
                  Append(tw, WeekEntry(wn, g, slots.sessions)), slots.rng)

\* for week_num in range(1, weeks + 1), from week wn on
WeekLoop(g, f, w, wn, k, tw, r) ==
    IF wn > w THEN [training_weeks |-> tw, rng |-> r]
    ELSE AfterDays(g, f, w, wn, tw, DaySlots(g, f, 1, k, <<>>, r))

\* lines 455-479: the payload around the weeks the loops built
PlanResult(g, w, loop) ==
    [plan |-> PlanPayload(g, w, loop.training_weeks), rng |-> loop.rng]

\* the plan returned and the generator state after the call
generate_plan(profile, analytics, r) ==
    PlanResult(profile.primary_goal, WeeksFor(profile.training_frequency),
               WeekLoop(profile.primary_goal, profile.training_frequency,
                        WeeksFor(profile.training_frequency), 1, 0, <<>>, r))

\* mutant: the goal is read from the analytics record when there is one
GeneratePlanEnter_readsAnalytics ==
    /\ gpc = "call"
    /\ goal' = IF fm_result # <<>> THEN fm_result[1].goal ELSE user_profile.primary_goal
    /\ freq' = user_profile.training_frequency
    /\ weeks' = WeeksFor(user_profile.training_frequency)
    /\ sessions_generated' = 0
    /\ training_weeks' = <<>>
    /\ week_num' = 0
    /\ day' = 0
    /\ week_sessions' = <<>>
    /\ plan_payload' = <<>>
    /\ gpc' = "week_loop"
    /\ UNCHANGED <<rng, user_profile>>
    /\ UNCHANGED otherThanPlan

(***************************************************************************)
(* generate_plan as a process: gpc is the position in the function.        *)
(*   "call"      about to run lines 202-207                                *)
(*   "week_loop" at the head of the loop over weeks                        *)
(*   "day_loop"  at the head of the loop over day slots                    *)
(*   "week_end"  after the day loop, before the week is appended           *)
(*   "build"     after the week loop                                       *)
(*   "done"      returned; plan_payload holds the result                   *)
(***************************************************************************)
GeneratePlanEnter ==
    /\ gpc = "call"
    /\ goal' = user_profile.primary_goal
    /\ freq' = user_profile.training_frequency
    /\ weeks' = WeeksFor(user_profile.training_frequency)
    /\ sessions_generated' = 0
    /\ training_weeks' = <<>>
    /\ week_num' = 0
    /\ day' = 0
    /\ week_sessions' = <<>>
    /\ plan_payload' = <<>>
    /\ gpc' = "week_loop"
    /\ UNCHANGED <<rng, user_profile>>
    /\ UNCHANGED otherThanPlan

\* for week_num in range(1, weeks + 1): next iteration or exhaustion
WeekIter ==
    /\ gpc = "week_loop"
    /\ IF week_num < weeks
       THEN /\ week_num' = week_num + 1
            /\ week_sessions' = <<>>
            /\ day' = 0
            /\ gpc' = "day_loop"
       ELSE /\ gpc' = "build"
            /\ UNCHANGED <<week_num, week_sessions, day>>
    /\ UNCHANGED <<goal, freq, weeks, sessions_generated, training_weeks,
                   plan_payload, rng, user_profile>>
    /\ UNCHANGED otherThanPlan

\* a day slot reached with the total already emitted: break
DayBreak ==
    /\ gpc = "day_loop"
    /\ day < freq
    /\ ReachedTotal(sessions_generated)
    /\ day' = day + 1
    /\ gpc' = "week_end"
    /\ UNCHANGED <<goal, freq, weeks, week_num, sessions_generated, training_weeks,
                   week_sessions, plan_payload, rng, user_profile>>
    /\ UNCHANGED otherThanPlan

\* a day slot that emits a session (lines 382-444)
EmitSession ==
    /\ gpc = "day_loop"
    /\ day < freq
    /\ ~ReachedTotal(sessions_generated)
    /\ LET built == SessionAt(goal, sessions_generated, day + 1, rng)
       IN /\ week_sessions' = Append(week_sessions, built.session)
          /\ rng' = built.rng
    /\ day' = day + 1
    /\ sessions_generated' = sessions_generated + 1
    /\ UNCHANGED <<gpc, goal, freq, weeks, week_num, training_weeks, plan_payload,
                   user_profile>>
    /\ UNCHANGED otherThanPlan

\* range(1, freq + 1) exhausted
DayLoopEnd ==
    /\ gpc = "day_loop"
    /\ day >= freq
    /\ gpc' = "week_end"
    /\ UNCHANGED <<goal, freq, weeks, week_num, day, sessions_generated,
                   training_weeks, week_sessions, plan_payload, rng, user_profile>>
    /\ UNCHANGED otherThanPlan

\* lines 445-453: append the week, leave the loop once the total is reached
WeekAppend ==
    /\ gpc = "week_end"
    /\ training_weeks' = Append(training_weeks, WeekEntry(week_num, goal, week_sessions))
    /\ gpc' = IF ReachedTotal(sessions_generated) THEN "build" ELSE "week_loop"
    /\ UNCHANGED <<goal, freq, weeks, week_num, day, sessions_generated,
                   week_sessions, plan_payload, rng, user_profile>>
    /\ UNCHANGED otherThanPlan

\* lines 455-479
BuildPayload ==
    /\ gpc = "build"
    /\ plan_payload' = <<PlanPayload(goal, weeks, training_weeks)>>
    /\ gpc' = "done"
    /\ UNCHANGED <<goal, freq, weeks, week_num, day, sessions_generated,
                   training_weeks, week_sessions, rng, user_profile>>
    /\ UNCHANGED otherThanPlan

(***************************************************************************)
(* Spec: generate_plan called on a profile drawn from a bounded set.       *)
(***************************************************************************)
\* "força" is what normalizar_objetivo makes of the form's "Força"
FORCA_CEDILHA == <<"f","o","r","ç","a">>

GoalInputs == RecognizedGoals \cup {FORCA_CEDILHA, <<>>}

vars == <<planVars, metVars, webVars, mainVars>>

\* main before the script runs
MainIdle ==
    /\ mpc = "idle"
    /\ form = <<>>
    /\ analises = <<>>
    /\ research_payload = <<>>
    /\ plan_markdown = <<>>
    /\ shown = <<>>
    /\ run = 0
    /\ first_structure = <<>>

\* search_web before any call
SearchIdle ==
    /\ spc = "idle"
    /\ sw_args = <<>>
    /\ sw_result = <<>>

\* ferramenta_matematica_treino before any call
MetricsIdle ==
    /\ fpc = "idle"
    /\ fm_args = <<>>
    /\ fm_result = <<>>

\* generate_plan before any call
PlanIdle ==
    /\ gpc = "idle"
    /\ goal = <<>>
    /\ freq = 0
    /\ weeks = 0
    /\ week_num = 0
    /\ day = 0
    /\ sessions_generated = 0
    /\ training_weeks = <<>>
    /\ week_sessions = <<>>
    /\ plan_payload = <<>>

Init ==
    /\ gpc = "call"
    /\ goal = <<>>
    /\ freq = 0
    /\ weeks = 0
    /\ week_num = 0
    /\ day = 0
    /\ sessions_generated = 0
    /\ training_weeks = <<>>
    /\ week_sessions = <<>>
    /\ plan_payload = <<>>
    /\ MetricsIdle
    /\ SearchIdle
    /\ MainIdle
    /\ rng \in {SeedState(s) : s \in 0..(MaxSeed - 1)}
    /\ user_profile \in [primary_goal : GoalInputs, training_frequency : 1..MaxFreq]

Next ==
    \/ GeneratePlanEnter
    \/ WeekIter
    \/ DayBreak
    \/ EmitSession
    \/ DayLoopEnd
    \/ WeekAppend
    \/ BuildPayload

Spec == Init /\ [][Next]_vars


(***************************************************************************)
(* Helpers of the properties.                                              *)
(***************************************************************************)
Range(f) == {f[i] : i \in DOMAIN f}

RECURSIVE FlattenWeeks(_)
FlattenWeeks(tw) ==
    IF tw = <<>> THEN <<>>
    ELSE FlattenWeeks(SubSeq(tw, 1, Len(tw) - 1)) \o tw[Len(tw)].sessions

\* the sessions emitted so far, in emission order
Emitted ==
    FlattenWeeks(training_weeks)
        \o (IF gpc \in {"day_loop", "week_end"} THEN week_sessions ELSE <<>>)

Returned == gpc = "done" /\ Len(plan_payload) = 1

ReturnedPlan == plan_payload[1]

Distribution(tw) == [i \in 1..Len(tw) |-> Len(tw[i].sessions)]

\* the least w with w * f >= n
CeilDiv(n, f) == CHOOSE w \in 0..n : w * f >= n /\ (w = 0 \/ (w - 1) * f < n)

MuscleGoals == {HIPERTROFIA, FORCA}

CircuitGoals == {EMAGRECIMENTO, CONDICIONAMENTO}

(***************************************************************************)
(* C1: for each of the four goals and every frequency 1..7, the sessions   *)
(* of the returned plan, summed over all weeks, are exactly 12.            *)
(***************************************************************************)
C1_TotalIsTwelve ==
    (Returned /\ goal \in RecognizedGoals /\ freq \in 1..7)
        => Len(FlattenWeeks(ReturnedPlan.training_weeks)) = 12

C1_Witness ==
    /\ Returned
    /\ goal = EMAGRECIMENTO
    /\ freq = 7
    /\ Distribution(ReturnedPlan.training_weeks) = <<7, 5>>

(***************************************************************************)
(* C2: for every frequency f in 1..7 the plan has ceil(12/f) weeks, the    *)
(* overview's macrocycle_length_weeks is that number, every week but the   *)
(* last holds f sessions and the last holds 12 - f*(weeks-1), a number in  *)
(* 0..f; f = 3 gives [3,3,3,3] and f = 5 gives [5,5,2].                    *)
(***************************************************************************)
C2_WeekDistribution ==
    (Returned /\ freq \in 1..7)
        => LET tw == ReturnedPlan.training_weeks
               w == CeilDiv(12, freq)
               last == 12 - freq * (w - 1)
           IN /\ Len(tw) = w
              /\ ReturnedPlan.overview.macrocycle_length_weeks = w
              /\ \A i \in 1..Len(tw) : tw[i].week = i
              /\ \A i \in 1..(w - 1) : Len(tw[i].sessions) = freq
              /\ Len(tw[w].sessions) = last
              /\ last \in 0..freq
              /\ (freq = 3 => Distribution(tw) = <<3, 3, 3, 3>>)
              /\ (freq = 5 => Distribution(tw) = <<5, 5, 2>>)

C2_Witness ==
    /\ Returned
    /\ freq = 5
    /\ goal = FORCA
    /\ Distribution(ReturnedPlan.training_weeks) = <<5, 5, 2>>
    /\ ReturnedPlan.overview.macrocycle_length_weeks = 3

(***************************************************************************)
(* C3: the k-th session emitted over the whole plan (k from 0, never reset *)
(* at a week boundary) uses the split at index k mod n of its goal's split *)
(* list, n being the number of splits of the goal.                         *)
(***************************************************************************)
GoalSplitList(g) ==
    CASE g = HIPERTROFIA -> hypertrophy_splits
      [] g = FORCA -> strength_splits
      [] g = CONDICIONAMENTO -> conditioning_splits
      [] g = EMAGRECIMENTO -> emagrecimento_splits

C3_SplitCyclesAcrossWeeks ==
    goal \in RecognizedGoals
        => LET list == GoalSplitList(goal)
               n == Len(list)
           IN /\ Len(Emitted) = sessions_generated
              /\ \A k \in 0..(Len(Emitted) - 1) :
                    /\ Emitted[k + 1].name = list[(k % n) + 1].name
                    /\ Emitted[k + 1].focus = list[(k % n) + 1].focus

\* the first session of the second week continues the cycle at template 6
C3_Witness ==
    /\ Returned
    /\ goal = HIPERTROFIA
    /\ freq = 5
    /\ ReturnedPlan.training_weeks[2].sessions[1].day = 1
    /\ ReturnedPlan.training_weeks[2].sessions[1].name = "Treino F - Ombros e Braços"
    /\ ReturnedPlan.training_weeks[2].sessions[2].name = "Treino A - Peito e Tríceps"

(***************************************************************************)
(* C4: every prescription of a plan carries the fixed sets/reps/rest of    *)
(* the plan's goal: hipertrofia 4 x 8-12 / 60-90s, forca 4 x 4-6 / 2-3min, *)
(* emagrecimento 3 x 12-15 / 30s, condicionamento 3 x 10-15 / 30-60s.      *)
(***************************************************************************)
GoalPrescription(g) ==
    CASE g = HIPERTROFIA -> <<4, "8-12", "60-90s">>
      [] g = FORCA -> <<4, "4-6", "2-3min">>
      [] g = EMAGRECIMENTO -> <<3, "12-15", "30s">>
      [] g = CONDICIONAMENTO -> <<3, "10-15", "30-60s">>

C4_PrescriptionFixedPerGoal ==
    goal \in RecognizedGoals
        => \A k \in 1..Len(Emitted) :
              \A e \in 1..Len(Emitted[k].exercises) :
                 LET p == Emitted[k].exercises[e]
                 IN <<p.sets, p.reps, p.rest>> = GoalPrescription(goal)

C4_Witness ==
    /\ Returned
    /\ goal = EMAGRECIMENTO
    /\ Len(Emitted) = 12
    /\ \A k \in 1..12 :
          /\ Len(Emitted[k].exercises) > 0
          /\ \A e \in 1..Len(Emitted[k].exercises) :
                Emitted[k].exercises[e].rest = "30s"

(***************************************************************************)
(* C5: whatever the random selection, a hipertrofia or forca session has   *)
(* between 1 and 6 exercises and an emagrecimento or condicionamento       *)
(* session has exactly 5.                                                  *)
(***************************************************************************)
C5_ExerciseCount ==
    \A k \in 1..Len(Emitted) :
        /\ goal \in MuscleGoals => Len(Emitted[k].exercises) \in 1..6
        /\ goal \in CircuitGoals => Len(Emitted[k].exercises) = 5

\* the four-muscle split draws 8 exercises and keeps 6
C5_Witness ==
    /\ goal = FORCA
    /\ Len(Emitted) >= 4
    /\ Emitted[4].name = "Treino D - Full Body"
    /\ Len(Emitted[4].exercises) = 6
    /\ Len(Emitted[3].exercises) = 4

(***************************************************************************)
(* C6: whatever the random selection, every exercise of a session belongs  *)
(* to the catalog list of one of the target muscle groups of the session's *)
(* split (hipertrofia, forca) or to the cardio/functional list             *)
(* (emagrecimento, condicionamento).                                       *)
(***************************************************************************)
SplitNamed(g, nm) == CHOOSE sp \in Range(GoalSplitList(g)) : sp.name = nm

C6_ExercisesFromCatalog ==
    \A k \in 1..Len(Emitted) :
        \A e \in 1..Len(Emitted[k].exercises) :
            LET ex == Emitted[k].exercises[e].exercise
            IN /\ goal \in MuscleGoals
                    => \E m \in Range(SplitNamed(goal, Emitted[k].name).muscles) :
                          ex \in Range(exercise_dict[m])
               /\ goal \in CircuitGoals => ex \in Range(cardio_exercises)

C6_Witness ==
    /\ Returned
    /\ goal = HIPERTROFIA
    /\ \E e1, e2 \in 1..Len(Emitted[3].exercises) :
          /\ Emitted[3].exercises[e1].exercise \in Range(exercise_dict["legs"])
          /\ Emitted[3].exercises[e2].exercise \in Range(exercise_dict["shoulders"])

(***************************************************************************)
(* C7: with a primary_goal that is none of the four recognized values,     *)
(* generate_plan falls back to hypertrophy: the sessions use the           *)
(* hypertrophy split templates and the prescription 4 x 8-12 / 60-90s.     *)
(***************************************************************************)
C7_UnknownGoalIsHypertrophy ==
    (Returned /\ goal \notin RecognizedGoals)
        => \A k \in 0..(Len(Emitted) - 1) :
              /\ Emitted[k + 1].name = hypertrophy_splits[(k % 6) + 1].name
              /\ \A e \in 1..Len(Emitted[k + 1].exercises) :
                    LET p == Emitted[k + 1].exercises[e]
                    IN <<p.sets, p.reps, p.rest>> = GoalPrescription(HIPERTROFIA)


(***************************************************************************)
(* normalizar_objetivo / normalizar_experiencia: strip() then lower().     *)
(***************************************************************************)
Whitespace == {" ", "\t", "\n", "\r"}

UpperChars == <<"A","B","C","D","E","F","G","H","I","J","K","L","M","N","O","P",
                "Q","R","S","T","U","V","W","X","Y","Z","Ç","Á","Ã","É","Í","Ó","Ú">>

LowerChars == <<"a","b","c","d","e","f","g","h","i","j","k","l","m","n","o","p",
                "q","r","s","t","u","v","w","x","y","z","ç","á","ã","é","í","ó","ú">>

LowerChar(c) ==
    IF \E i \in DOMAIN UpperChars : UpperChars[i] = c
    THEN LowerChars[CHOOSE i \in DOMAIN UpperChars : UpperChars[i] = c]
    ELSE c

\* str.lower()
Lower(str) == [i \in 1..Len(str) |-> LowerChar(str[i])]

\* str.strip(): drop the leading and the trailing whitespace
Strip(str) ==
    LET keep == {i \in 1..Len(str) : str[i] \notin Whitespace}
    IN IF keep = {} THEN <<>>
       ELSE LET first == CHOOSE i \in keep : \A j \in keep : i <= j
                last == CHOOSE i \in keep : \A j \in keep : j <= i
            IN SubSeq(str, first, last)

\* goal.strip().lower() if goal else ""
normalizar_objetivo(g) == IF g # <<>> THEN Lower(Strip(g)) ELSE <<>>

\* level.strip().lower() if level else ""
normalizar_experiencia(level) == IF level # <<>> THEN Lower(Strip(level)) ELSE <<>>

(***************************************************************************)
(* ferramenta_matematica_treino.  Numbers are fixed point: weight_kg in    *)
(* tenths of a kilogram, height_cm in whole centimetres, MET in tenths,    *)
(* duration in hundredths of an hour, calories in tenths of a kcal (one    *)
(* decimal), bmi in hundredths (two decimals).  round() is computed on the *)
(* exact quotient, ties to even.                                           *)
(***************************************************************************)
goal_presets ==
    (HIPERTROFIA :> [met |-> 60, duration_hours |-> 120, rep_range |-> "6-12",
                     intensity |-> "70-80% 1RM"])
    @@ (EMAGRECIMENTO :> [met |-> 55, duration_hours |-> 115, rep_range |-> "12-15",
                          intensity |-> "Circuitos com pausa curta"])
    @@ (FORCA :> [met |-> 68, duration_hours |-> 125, rep_range |-> "3-6",
                  intensity |-> "80-90% 1RM"])
    @@ (CONDICIONAMENTO :> [met |-> 72, duration_hours |-> 105, rep_range |-> "10-15",
                            intensity |-> "Intervalos moderados"])

volume_table ==
    (INICIANTE :> "14-18 séries por grupamento")
    @@ (INTERMEDIARIO :> "18-22 séries por grupamento")
    @@ (AVANCADO :> "22-26 séries por grupamento")

\* round(n / d) for n >= 0, d > 0
RoundDiv(n, d) ==
    LET q == n \div d
        rem == n % d
    IN IF 2 * rem < d THEN q
       ELSE IF 2 * rem > d THEN q + 1
       ELSE IF q % 2 = 0 THEN q ELSE q + 1

\* mutant: an unknown goal gets the first circuit preset
PresetFor_defaultEmagrecimento(goal_key) ==
    IF goal_key \in DOMAIN goal_presets THEN goal_presets[goal_key]
    ELSE goal_presets[EMAGRECIMENTO]

\* goal_presets.get(goal_key, goal_presets["hipertrofia"])
PresetFor(goal_key) ==
    IF goal_key \in DOMAIN goal_presets THEN goal_presets[goal_key]
    ELSE goal_presets[HIPERTROFIA]

\* mutant: an unknown level gets the entry of the parameter's default, iniciante
VolumeFor_defaultIniciante(level_key) ==
    IF level_key \in DOMAIN volume_table THEN volume_table[level_key]
    ELSE volume_table[INICIANTE]

\* volume_table.get(normalizar_experiencia(experience_level), "18-22 ...")
VolumeFor(level_key) ==
    IF level_key \in DOMAIN volume_table THEN volume_table[level_key]
    ELSE "18-22 séries por grupamento"

\* bmi: None unless height_cm is given and non-zero
BmiOf(weight_kg, height_cm) ==
    IF height_cm # Absent /\ height_cm[1] # 0
    THEN Some(RoundDiv(weight_kg * 100000, height_cm[1] * height_cm[1]))
    ELSE Absent

ferramenta_matematica_treino(age, weight_kg, training_frequency, primary_goal, height_cm, experience_level) ==
    LET goal_key == normalizar_objetivo(primary_goal)
        preset == PresetFor(goal_key)
        bmi == BmiOf(weight_kg, height_cm)
        session_calories ==
            RoundDiv(weight_kg * preset.met * preset.duration_hours, 1000)
        weekly_calories == session_calories * training_frequency
        volume == VolumeFor(normalizar_experiencia(experience_level))
    IN [goal |-> goal_key,
        estimated_session_calories |-> session_calories,
        estimated_weekly_calories |-> weekly_calories,
        bmi |-> bmi,
        recommended_rep_range |-> preset.rep_range,
        recommended_intensity |-> preset.intensity,
        volume_per_session |-> volume,
        sessions_per_week |-> training_frequency,
        experience_level |-> normalizar_experiencia(experience_level)]

(***************************************************************************)
(* SpecMetrics: ferramenta_matematica_treino called on arguments drawn     *)
(* from bounded sets.                                                      *)
(***************************************************************************)
\* goal strings that are one of the four keys once trimmed and lower-cased
KnownGoalStrings ==
    {HIPERTROFIA, EMAGRECIMENTO, FORCA, CONDICIONAMENTO,
     <<"H","i","p","e","r","t","r","o","f","i","a">>,
     <<" ","F","O","R","C","A"," ">>,
     <<"\t","E","m","a","g","r","e","c","i","m","e","n","t","o","\n">>,
     <<"C","o","n","d","i","c","i","o","n","a","m","e","n","t","o">>}

\* goal strings that are none of the four keys, trimmed and lower-cased or not
UnknownGoalStrings ==
    {<<>>, <<" ">>, <<"F","o","r","ç","a">>, FORCA_CEDILHA,
     <<"f","o","r"," ","c","a">>, <<"y","o","g","a">>}

KnownLevelStrings ==
    {INICIANTE, INTERMEDIARIO, AVANCADO,
     <<"I","n","i","c","i","a","n","t","e">>,
     <<" ","A","V","A","N","C","A","D","O"," ">>}

UnknownLevelStrings ==
    {<<>>, <<"I","n","t","e","r","m","e","d","i","á","r","i","o">>,
     <<"A","v","a","n","ç","a","d","o">>, <<"e","x","p","e","r","t">>}

MetricsArgs ==
    [age : {25},
     weight_kg : {750, 800},
     training_frequency : {3, 4},
     primary_goal : KnownGoalStrings \cup UnknownGoalStrings,
     height_cm : {Absent, Some(0), Some(175)},
     experience_level : KnownLevelStrings \cup UnknownLevelStrings]

MetricsCall ==
    /\ fpc = "call"
    /\ fm_result' = Some(ferramenta_matematica_treino(
                            fm_args.age, fm_args.weight_kg,
                            fm_args.training_frequency, fm_args.primary_goal,
                            fm_args.height_cm, fm_args.experience_level))
    /\ fpc' = "done"
    /\ UNCHANGED <<fm_args, planVars, webVars, mainVars>>

InitMetrics ==
    /\ fpc = "call"
    /\ fm_args \in MetricsArgs
    /\ fm_result = <<>>
    /\ PlanIdle
    /\ SearchIdle
    /\ MainIdle
    /\ rng = SeedState(0)
    /\ user_profile = [primary_goal |-> <<>>, training_frequency |-> 1]

NextMetrics == MetricsCall

SpecMetrics == InitMetrics /\ [][NextMetrics]_vars

(***************************************************************************)
(* C8: ferramenta_matematica_treino does not fail on an unrecognized enum  *)
(* string: a goal that is none of the four values (after trim and lower    *)
(* case) gets the hypertrophy preset (rep range 6-12, intensity 70-80%     *)
(* 1RM, MET 6.0, duration 1.2h) and an experience level that is none of    *)
(* the three values gets '18-22 séries por grupamento'.                    *)
(***************************************************************************)
C8_UnknownEnumDefaults ==
    fpc = "done"
        => /\ Len(fm_result) = 1
           /\ fm_args.primary_goal \in UnknownGoalStrings
                => /\ fm_result[1].recommended_rep_range = "6-12"
                   /\ fm_result[1].recommended_intensity = "70-80% 1RM"
                   \* weight x 6.0 x 1.2, to one decimal
                   /\ fm_result[1].estimated_session_calories
                        = RoundDiv(fm_args.weight_kg * 72, 10)
                   /\ fm_result[1].goal \notin RecognizedGoals
           /\ fm_args.experience_level \in UnknownLevelStrings
                => fm_result[1].volume_per_session = "18-22 séries por grupamento"
           /\ fm_args.primary_goal = <<" ","F","O","R","C","A"," ">>
                => /\ fm_result[1].recommended_rep_range = "3-6"
                   /\ fm_result[1].goal = FORCA
           /\ fm_args.experience_level = <<" ","A","V","A","N","C","A","D","O"," ">>
                => fm_result[1].volume_per_session = "22-26 séries por grupamento"

C8_Witness ==
    /\ fpc = "done"
    /\ fm_args.primary_goal = <<"F","o","r","ç","a">>
    /\ fm_args.experience_level = <<"A","v","a","n","ç","a","d","o">>
    /\ fm_args.weight_kg = 800
    /\ fm_result[1].goal = FORCA_CEDILHA
    /\ fm_result[1].recommended_rep_range = "6-12"
    /\ fm_result[1].estimated_session_calories = 5760
    /\ fm_result[1].volume_per_session = "18-22 séries por grupamento"


(***************************************************************************)
(* search_web.  The answer of the service is an input: the request may     *)
(* raise (no connection, timeout), the status may be an error, the body    *)
(* may not be JSON, and the JSON value may have any shape.  A JSON item is *)
(* [isdict, Text, FirstURL, Topics]; Text and FirstURL are absent or a     *)
(* string, Topics is absent or [islist, items].  The query and a snippet   *)
(* are texts (sequences of string pieces), the empty string being <<>>.    *)
(***************************************************************************)
MaxResults == 4
MaxTopics == 3

NonDict == [isdict |-> FALSE, Text |-> Absent, FirstURL |-> Absent, Topics |-> Absent]

EmptyDict == [isdict |-> TRUE, Text |-> Absent, FirstURL |-> Absent, Topics |-> Absent]

TopicA == [isdict |-> TRUE, Text |-> Some("Treino ABC"),
           FirstURL |-> Some("https://duckduckgo.com/a"), Topics |-> Absent]

TopicB == [isdict |-> TRUE, Text |-> Some("Hipertrofia"), FirstURL |-> Absent,
           Topics |-> Absent]

GroupAB == [isdict |-> TRUE, Text |-> Absent, FirstURL |-> Absent,
            Topics |-> Some([islist |-> TRUE, items |-> <<TopicA, TopicB>>])]

GroupWithText == [isdict |-> TRUE, Text |-> Some("Grupo"),
                  FirstURL |-> Some("https://duckduckgo.com/g"),
                  Topics |-> Some([islist |-> TRUE,
                                   items |-> <<TopicB, NonDict, TopicA>>])]

GroupNotList == [isdict |-> TRUE, Text |-> Absent, FirstURL |-> Absent,
                 Topics |-> Some([islist |-> FALSE, items |-> <<>>])]

JsonItems == {NonDict, EmptyDict, TopicA, TopicB, GroupAB, GroupWithText, GroupNotList}

RECURSIVE SeqsUpTo(_, _)
SeqsUpTo(S, n) ==
    IF n = 0 THEN {<<>>}
    ELSE LET shorter == SeqsUpTo(S, n - 1)
         IN shorter \cup {Append(q, x) : q \in {t \in shorter : Len(t) = n - 1}, x \in S}

\* what the service can answer
Responses ==
    {[kind |-> k, related |-> <<>>] :
        k \in {"connection_error", "timeout", "http_error", "not_json",
               "json_not_dict", "json_no_related", "json_related_null"}}
    \cup {[kind |-> "json", related |-> l] : l \in SeqsUpTo(JsonItems, MaxTopics)}

\* the generator extract_topics, as the list it yields
RECURSIVE extract_topics(_)
extract_topics(items) ==
    IF items = <<>> THEN <<>>
    ELSE LET item == Head(items)
             direct ==
                IF item.isdict /\ item.Text # Absent
                THEN << [title |-> item.Text[1], snippet |-> <<>>,
                         url |-> IF item.FirstURL # Absent THEN item.FirstURL[1]
                                 ELSE ""] >>
                ELSE <<>>
             nested ==
                IF item.isdict /\ item.Topics # Absent /\ item.Topics[1].islist
                THEN extract_topics(item.Topics[1].items)
                ELSE <<>>
         IN direct \o nested \o extract_topics(Tail(items))

\* topics[:max_results], max_results >= 0
SliceTo(topics, max_results) == SubSeq(topics, 1, Min(max_results, Len(topics)))

\* the try block: the exception it ends with (absent when it completes), the
\* results list at that point and the requests made
TryBody(query, max_results, resp) ==
    IF resp.kind = "connection_error"
    THEN [exc |-> Some("ConnectionError"), results |-> <<>>, requests |-> 1]
    ELSE IF resp.kind = "timeout"
    THEN [exc |-> Some("Timeout"), results |-> <<>>, requests |-> 1]
    ELSE IF resp.kind = "http_error"
    THEN [exc |-> Some("HTTPError"), results |-> <<>>, requests |-> 1]
    ELSE IF resp.kind = "not_json"
    THEN [exc |-> Some("JSONDecodeError"), results |-> <<>>, requests |-> 1]
    ELSE IF resp.kind = "json_not_dict"
    THEN [exc |-> Some("AttributeError"), results |-> <<>>, requests |-> 1]
    ELSE IF resp.kind = "json_related_null"
    THEN [exc |-> Some("TypeError"), results |-> <<>>, requests |-> 1]
    ELSE LET topics == extract_topics(IF resp.kind = "json_no_related" THEN <<>>
                                      ELSE resp.related)
         IN [exc |-> Absent, results |-> SliceTo(topics, max_results), requests |-> 1]

\* mutant: the handler is narrowed to the errors of the request
Catches_requestErrorsOnly(exc) == exc \in {"ConnectionError", "Timeout", "HTTPError"}

\* mutant: no handler at all, every exception leaves search_web
Catches_noHandler(exc) == FALSE

\* except Exception
Catches(exc) == TRUE

ErrorRecord(exc) ==
    [title |-> "Erro na pesquisa",
     snippet |-> <<"Falha ao consultar a API de busca: ", exc>>,
     url |-> ""]

\* search_web: the list returned, whether an exception left the function, and
\* the number of requests made
search_web(query, max_results, resp) ==
    IF query = <<>>
    THEN [raised |-> FALSE, results |-> <<>>, requests |-> 0]
    ELSE LET body == TryBody(query, max_results, resp)
         IN IF body.exc = Absent
            THEN [raised |-> FALSE, results |-> body.results, requests |-> body.requests]
            ELSE IF Catches(body.exc[1])
            THEN [raised |-> FALSE,
                  results |-> Append(body.results, ErrorRecord(body.exc[1])),
                  requests |-> body.requests]
            ELSE [raised |-> TRUE, results |-> <<>>, requests |-> body.requests]

(***************************************************************************)
(* SpecSearch: search_web called on a query, a limit and an answer of the  *)
(* service drawn from bounded sets.                                        *)
(***************************************************************************)
SearchArgs ==
    [query : {<<>>, <<"melhores exercícios para ">> \o FORCA \o <<" academia">>},
     max_results : 0..MaxResults,
     resp : Responses]

SearchCall ==
    /\ spc = "call"
    /\ sw_result' = Some(search_web(sw_args.query, sw_args.max_results, sw_args.resp))
    /\ spc' = "done"
    /\ UNCHANGED <<sw_args, planVars, metVars, mainVars>>

InitSearch ==
    /\ spc = "call"
    /\ sw_args \in SearchArgs
    /\ sw_result = <<>>
    /\ PlanIdle
    /\ MetricsIdle
    /\ MainIdle
    /\ rng = SeedState(0)
    /\ user_profile = [primary_goal |-> <<>>, training_frequency |-> 1]

NextSearch == SearchCall

SpecSearch == InitSearch /\ [][NextSearch]_vars

(***************************************************************************)
(* C9: search_web never raises; when the request, the status check, the    *)
(* JSON parse or the topic extraction fails it returns exactly one         *)
(* sentinel record (title 'Erro na pesquisa', empty url) and no partial    *)
(* results; on success it returns 0..max_results records with the keys     *)
(* title, snippet and url; for an empty query it returns the empty list    *)
(* without making a request.                                               *)
(***************************************************************************)
FailingKinds ==
    {"connection_error", "timeout", "http_error", "not_json", "json_not_dict",
     "json_related_null"}

C9_SearchNeverRaises ==
    spc = "done"
        => LET out == sw_result[1]
           IN /\ ~out.raised
              /\ sw_args.query = <<>>
                    => out.results = <<>> /\ out.requests = 0
              /\ (sw_args.query # <<>> /\ sw_args.resp.kind \in FailingKinds)
                    => /\ Len(out.results) = 1
                       /\ out.results[1].title = "Erro na pesquisa"
                       /\ out.results[1].url = ""
              /\ (sw_args.query # <<>> /\ sw_args.resp.kind \notin FailingKinds)
                    => /\ Len(out.results) \in 0..sw_args.max_results
                       /\ \A i \in 1..Len(out.results) :
                             /\ DOMAIN out.results[i] = {"title", "snippet", "url"}
                             /\ out.results[i].title # "Erro na pesquisa"

\* a failed JSON parse is absorbed, and an answer with more topics than the
\* limit is cut to the limit
C9_Witness ==
    /\ spc = "done"
    /\ sw_args.query # <<>>
    /\ \/ /\ sw_args.resp.kind = "not_json"
          /\ sw_result[1].results = <<ErrorRecord("JSONDecodeError")>>
       \/ /\ sw_args.resp.kind = "json"
          /\ sw_args.resp.related = <<GroupWithText, GroupAB>>
          /\ sw_args.max_results = 4
          /\ Len(sw_result[1].results) = 4
          /\ sw_result[1].results[1].title = "Grupo"
          /\ sw_result[1].results[2] = [title |-> "Hipertrofia", snippet |-> <<>>, url |-> ""]


(***************************************************************************)
(* render_plan_markdown.  A text is a sequence of string pieces (a goal,   *)
(* being a sequence of characters, is spliced in); a dict is a record, a   *)
(* missing key is a field outside its DOMAIN, and None in a string-valued  *)
(* field is the string None.                                               *)
(***************************************************************************)
\* the concatenation of ss[lo..hi], halving the range
RECURSIVE ConcatRange(_, _, _)
ConcatRange(ss, lo, hi) ==
    IF lo > hi THEN <<>>
    ELSE IF lo = hi THEN ss[lo]
    ELSE LET mid == (lo + hi) \div 2
         IN ConcatRange(ss, lo, mid) \o ConcatRange(ss, mid + 1, hi)

ConcatAll(ss) == ConcatRange(ss, 1, Len(ss))

\* sep.join(parts), every part a text
RECURSIVE JoinRange(_, _, _, _)
JoinRange(parts, sep, lo, hi) ==
    IF lo > hi THEN <<>>
    ELSE IF lo = hi THEN parts[lo]
    ELSE LET mid == (lo + hi) \div 2
         IN JoinRange(parts, sep, lo, mid) \o <<sep>> \o JoinRange(parts, sep, mid + 1, hi)

JoinPieces(parts, sep) == JoinRange(parts, sep, 1, Len(parts))

\* the separator " \u2013 " (space, U+2013 EN DASH, space), written in ASCII
EnDash == " -- "

\* d.get(k) is a non-empty string
TruthyStr(d, k) == k \in DOMAIN d /\ d[k] \notin {"", None}

\* mutant: the key being there is enough, an empty list passes
TruthySeq_keyOnly(d, k) == k \in DOMAIN d

\* d.get(k) is a non-empty list or text
TruthySeq(d, k) == k \in DOMAIN d /\ d[k] # <<>>

\* the line of one exercise
ExerciseLine(ex) ==
    LET parts ==
            (IF "sets" \in DOMAIN ex THEN << <<ToString(ex.sets), "x">> >> ELSE <<>>)
            \o (IF "reps" \in DOMAIN ex THEN << <<ex.reps>> >> ELSE <<>>)
            \o (IF TruthyStr(ex, "rest") THEN << <<"descanso ", ex.rest>> >> ELSE <<>>)
        rep_str == JoinPieces(parts, " ")
        line == IF TruthyStr(ex, "exercise")
                THEN <<"- ", ex.exercise, " ">> \o rep_str
                ELSE <<"-">>
    IN IF TruthyStr(ex, "notes") THEN line \o <<EnDash, ex.notes>> ELSE line

\* the lines of one session, session_idx counted from 1 within the week
SessionLines(session, session_idx) ==
    LET name == IF TruthyStr(session, "name") THEN <<session.name>>
                ELSE <<"Sessão ", ToString(session_idx)>>
        session_header ==
            <<"#### ">> \o name
            \o (IF TruthyStr(session, "focus") THEN <<EnDash, session.focus>> ELSE <<>>)
        exercises == IF "exercises" \in DOMAIN session THEN session.exercises ELSE <<>>
    IN << session_header >>
       \o (IF TruthyStr(session, "resumo") THEN << <<session.resumo>> >> ELSE <<>>)
       \o (IF exercises # <<>>
           THEN << <<"##### Exercícios">> >>
                \o [i \in 1..Len(exercises) |-> ExerciseLine(exercises[i])]
           ELSE <<>>)
       \o (IF TruthyStr(session, "conditioning")
           THEN << <<"- **Condicionamento:** ", session.conditioning>> >> ELSE <<>>)
       \o (IF TruthyStr(session, "mobility")
           THEN << <<"- **Mobilidade:** ", session.mobility>> >> ELSE <<>>)
       \o (IF TruthyStr(session, "progression")
           THEN << <<"- **Progressão:** ", session.progression>> >> ELSE <<>>)
       \o << <<"">> >>

\* the lines of one week
WeekLines(week) ==
    LET sessions == IF "sessions" \in DOMAIN week THEN week.sessions ELSE <<>>
    IN (IF "week" \in DOMAIN week
        THEN << <<"### Semana ", ToString(week.week)>>
                \o (IF TruthySeq(week, "focus") THEN <<": ">> \o week.focus ELSE <<>>) >>
        ELSE <<>>)
       \o ConcatAll([i \in 1..Len(sessions) |-> SessionLines(sessions[i], i)])

BulletLines(items) == [i \in 1..Len(items) |-> <<"- ", items[i]>>]

OverviewLines(plan) ==
    IF "overview" \in DOMAIN plan /\ DOMAIN plan.overview # {}
    THEN LET overview == plan.overview
         IN << <<"## Visão geral">> >>
            \o (IF TruthySeq(overview, "primary_goal")
                THEN << <<"- **Objetivo principal:** ">> \o overview.primary_goal >>
                ELSE <<>>)
            \o (IF TruthySeq(overview, "focus_points")
                THEN << <<"- **Pontos de foco:** ">>
                        \o JoinPieces(overview.focus_points, ", ") >>
                ELSE <<>>)
            \o (IF "macrocycle_length_weeks" \in DOMAIN overview
                   /\ overview.macrocycle_length_weeks # 0
                THEN << <<"- **Duração do macrociclo:** ",
                          ToString(overview.macrocycle_length_weeks), " semanas">> >>
                ELSE <<>>)
            \o << <<"">> >>
    ELSE <<>>

\* the lines render_plan_markdown collects, in order
RenderLines(plan) ==
    OverviewLines(plan)
    \o (IF TruthySeq(plan, "guidelines")
        THEN << <<"## Diretrizes">> >> \o BulletLines(plan.guidelines) \o << <<"">> >>
        ELSE <<>>)
    \o (IF TruthySeq(plan, "training_weeks")
        THEN << <<"## Semanas de treino">> >>
             \o ConcatAll([i \in 1..Len(plan.training_weeks)
                            |-> WeekLines(plan.training_weeks[i])])
             \o << <<"">> >>
        ELSE <<>>)
    \o (IF TruthySeq(plan, "recovery")
        THEN << <<"## Recuperação">> >> \o BulletLines(plan.recovery) \o << <<"">> >>
        ELSE <<>>)
    \o (IF TruthySeq(plan, "nutrition_tips")
        THEN << <<"## Dicas de nutrição">> >> \o BulletLines(plan.nutrition_tips)
             \o << <<"">> >>
        ELSE <<>>)
    \o (IF TruthyStr(plan, "progression_strategy")
        THEN << <<"## Estratégia de progressão">>, <<plan.progression_strategy>>, <<"">> >>
        ELSE <<>>)

\* "\n".join(lines)
render_plan_markdown(plan) == JoinPieces(RenderLines(plan), "\n")


(***************************************************************************)
(* formatar_analises and resumir_pesquisa_web.                             *)
(***************************************************************************)
\* str() of a float held in tenths: 5760 is "576.0"
Dec1(t) == <<ToString(t \div 10), ".", ToString(t % 10)>>

\* str() of a float held in hundredths: 2449 is "24.49", 2450 is "24.5"
Dec2(h) ==
    IF h % 10 = 0 THEN <<ToString(h \div 100), ".", ToString((h % 100) \div 10)>>
    ELSE IF h % 100 < 10 THEN <<ToString(h \div 100), ".0", ToString(h % 100)>>
    ELSE <<ToString(h \div 100), ".", ToString(h % 100)>>

\* the lines of formatar_analises (partes)
AnalisesLines(a) ==
    << <<"- Calorias estimadas por sessão: ">> \o Dec1(a.estimated_session_calories)
            \o <<" kcal">>,
       <<"- Calorias semanais aproximadas: ">> \o Dec1(a.estimated_weekly_calories)
            \o <<" kcal">>,
       <<"- Faixa de repetições sugerida: ", a.recommended_rep_range>>,
       <<"- Intensidade sugerida: ", a.recommended_intensity>>,
       <<"- Volume por sessão: ", a.volume_per_session>> >>
    \o (IF a.bmi # Absent /\ a.bmi[1] # 0
        THEN << <<"- IMC aproximado: ">> \o Dec2(a.bmi[1]) >>
        ELSE <<>>)

formatar_analises(a) == JoinPieces(AnalisesLines(a), "\n")

\* first.get("title") or first.get("url") or first.get("snippet"), else str(first)
FirstLabel(first) ==
    IF first.title # "" THEN <<first.title>>
    ELSE IF first.url # "" THEN <<first.url>>
    ELSE IF first.snippet # <<>> THEN first.snippet
    ELSE <<"{'title': '', 'snippet': '', 'url': ''}">>

resumir_pesquisa_web(pesquisa) ==
    [i \in 1..Len(pesquisa) |->
        IF pesquisa[i].results # <<>>
        THEN pesquisa[i].query \o <<": ">> \o FirstLabel(pesquisa[i].results[1])
        ELSE pesquisa[i].query]

(***************************************************************************)
(* main: one run of the script after "Gerar plano" is pressed.  mpc is the *)
(* position: "form" (button pressed, nothing run yet), "search" (in the    *)
(* loop over the queries), "plan" (before generate_plan), "show" (before   *)
(* the output calls), "ended" (the run is over).  Every press of the       *)
(* button runs the script again on the values the form holds.              *)
(***************************************************************************)
GoalOptions ==
    {<<"H","i","p","e","r","t","r","o","f","i","a">>,
     <<"E","m","a","g","r","e","c","i","m","e","n","t","o">>,
     <<"F","o","r","ç","a">>,
     <<"C","o","n","d","i","c","i","o","n","a","m","e","n","t","o">>}

LevelOptions ==
    {<<"I","n","i","c","i","a","n","t","e">>,
     <<"I","n","t","e","r","m","e","d","i","á","r","i","o">>,
     <<"A","v","a","n","ç","a","d","o">>}

FreqOptions == {2, 3, 4, 5, 6}

\* the height field: left blank, a number, or text float() rejects
HeightInputs ==
    {[kind |-> "blank", cm |-> 0], [kind |-> "number", cm |-> 175],
     [kind |-> "invalid", cm |-> 0]}

Forms ==
    [age : {25}, weight : {750}, height_input : HeightInputs, freq : FreqOptions,
     primary_goal_display : GoalOptions, experience_display : LevelOptions,
     restrictions : {<<" ","o","m","b","r","o"," ">>}, notes : {<<>>}]

\* text.strip() or None
StripOrNone(text) == IF Strip(text) = <<>> THEN Absent ELSE Some(Strip(text))

\* the user_profile of lines 672-683
ProfileOf(fm) ==
    [age |-> fm.age,
     weight_kg |-> fm.weight,
     training_frequency |-> fm.freq,
     primary_goal |-> normalizar_objetivo(fm.primary_goal_display),
     experience_level |-> normalizar_experiencia(fm.experience_display),
     restrictions |-> StripOrNone(fm.restrictions),
     additional_notes |-> StripOrNone(fm.notes),
     height_cm |-> IF fm.height_input.kind = "number" THEN Some(fm.height_input.cm)
                   ELSE Absent]

\* the three queries of lines 701-705
Queries(profile) ==
    << <<"treino de musculação ">> \o profile.primary_goal
            \o <<" ", ToString(profile.training_frequency), " dias por semana">>,
       <<"melhores exercícios para ">> \o profile.primary_goal \o <<" academia">>,
       <<"estratégias de treino para ">> \o profile.primary_goal >>

\* the answers of the service a run of main is explored with
MainResponses ==
    {[kind |-> "connection_error", related |-> <<>>],
     [kind |-> "json_no_related", related |-> <<>>],
     [kind |-> "json", related |-> <<GroupAB>>]}

\* the output calls of lines 715-736
OutputCalls(profile, a, research, markdown) ==
    << [call |-> "subheader", text |-> <<"Perfil validado">>],
       [call |-> "markdown", text |-> <<"- **Idade:** ", ToString(profile.age), " anos">>],
       [call |-> "markdown",
        text |-> <<"- **Peso:** ">> \o Dec1(profile.weight_kg) \o <<" kg">>] >>
    \o (IF profile.height_cm # Absent /\ profile.height_cm[1] # 0
        THEN << [call |-> "markdown",
                 text |-> <<"- **Altura:** ", ToString(profile.height_cm[1]), ".0",
                            " cm">>] >>
        ELSE <<>>)
    \o << [call |-> "markdown",
           text |-> <<"- **Frequência semanal:** ",
                      ToString(profile.training_frequency), " dias">>],
          [call |-> "markdown", text |-> <<"- **Objetivo:** ">> \o profile.primary_goal],
          [call |-> "markdown", text |-> <<"- **Nível:** ">> \o profile.experience_level],
          [call |-> "subheader", text |-> <<"Insights analíticos">>],
          [call |-> "markdown", text |-> formatar_analises(a)] >>
    \o (LET resumo == resumir_pesquisa_web(research)
        IN IF resumo # <<>>
           THEN << [call |-> "subheader", text |-> <<"Referências encontradas na web">>] >>
                \o [i \in 1..Len(resumo) |->
                        [call |-> "markdown", text |-> <<"- ">> \o resumo[i]]]
           ELSE <<>>)
    \o << [call |-> "subheader", text |-> <<"Plano final">>],
          [call |-> "markdown", text |-> markdown] >>

\* lines 670-699: the profile, the height check and the metrics
MainSubmit ==
    /\ mpc = "form"
    /\ user_profile' = ProfileOf(form)
    /\ IF form.height_input.kind = "invalid"
       THEN /\ shown' = << [call |-> "error",
                            text |-> <<"Altura inválida. Informe somente números (ex: 175).">>] >>
            /\ mpc' = "ended"
            /\ UNCHANGED analises
       ELSE /\ analises' = Some(ferramenta_matematica_treino(
                                   form.age, form.weight, form.freq,
                                   normalizar_objetivo(form.primary_goal_display),
                                   IF form.height_input.kind = "number"
                                   THEN Some(form.height_input.cm) ELSE Absent,
                                   normalizar_experiencia(form.experience_display)))
            /\ mpc' = "search"
            /\ UNCHANGED shown
    /\ UNCHANGED <<form, research_payload, plan_markdown, run, first_structure,
                   genVars, rng, metVars, webVars>>

\* lines 707-709: one query; an exception leaving search_web would end the run
MainSearch ==
    /\ mpc = "search"
    /\ Len(research_payload) < 3
    /\ \E resp \in MainResponses :
          LET q == Queries(user_profile)[Len(research_payload) + 1]
              out == search_web(q, 4, resp)
          IN IF out.raised
             THEN /\ mpc' = "ended"
                  /\ shown' = << [call |-> "exception", text |-> <<"search_web">>] >>
                  /\ UNCHANGED research_payload
             ELSE /\ research_payload' =
                        Append(research_payload, [query |-> q, results |-> out.results])
                  /\ mpc' = IF Len(research_payload) = 2 THEN "plan" ELSE "search"
                  /\ UNCHANGED shown
    /\ UNCHANGED <<form, analises, plan_markdown, run, first_structure, user_profile,
                   genVars, rng, metVars, webVars>>

\* lines 711-713: the plan and its text
MainPlan ==
    /\ mpc = "plan"
    /\ \E made \in {generate_plan(user_profile, analises[1], rng)} :
          /\ plan_payload' = Some(made.plan)
          /\ rng' = made.rng
          /\ plan_markdown' = render_plan_markdown(made.plan)
    /\ mpc' = "show"
    /\ UNCHANGED <<gpc, goal, freq, weeks, week_num, day, sessions_generated,
                   training_weeks, week_sessions>>
    /\ UNCHANGED <<form, analises, research_payload, shown, run, first_structure,
                   user_profile, metVars, webVars>>

\* lines 715-736
MainShow ==
    /\ mpc = "show"
    /\ shown' = OutputCalls(user_profile, analises[1], research_payload, plan_markdown)
    /\ mpc' = "ended"
    /\ UNCHANGED <<form, analises, research_payload, plan_markdown, run,
                   first_structure, user_profile, genVars, rng, metVars, webVars>>

\* what of a plan does not depend on the random picks: the week count, and
\* per week its number and focus, per session its day, name, focus and the
\* sets/reps/rest of each prescription
PlanStructure(plan) ==
    [macrocycle_length_weeks |-> plan.overview.macrocycle_length_weeks,
     weeks |-> [i \in 1..Len(plan.training_weeks) |->
        LET wk == plan.training_weeks[i]
        IN [week |-> wk.week, focus |-> wk.focus,
            sessions |-> [j \in 1..Len(wk.sessions) |->
                LET ss == wk.sessions[j]
                IN [day |-> ss.day, name |-> ss.name, focus |-> ss.focus,
                    prescriptions |-> [e \in 1..Len(ss.exercises) |->
                        <<ss.exercises[e].sets, ss.exercises[e].reps,
                          ss.exercises[e].rest>>]]]]]]

\* every call of the run answered the error sentinel
AllSentinel(research) ==
    \A i \in 1..Len(research) :
        /\ Len(research[i].results) = 1
        /\ research[i].results[1].title = "Erro na pesquisa"

\* the button is pressed again on the same form: the script runs once more.
\* first_structure keeps, for the comparison of the two runs, the structure
\* of the first run's plan (absent when that run made none) and whether all
\* its searches failed.
MainRerun ==
    /\ mpc = "ended"
    /\ run = 1
    /\ run' = 2
    /\ first_structure' =
            IF plan_payload # <<>>
            THEN Some([structure |-> PlanStructure(plan_payload[1]),
                       all_sentinel |-> AllSentinel(research_payload)])
            ELSE Absent
    /\ mpc' = "form"
    /\ analises' = <<>>
    /\ research_payload' = <<>>
    /\ plan_markdown' = <<>>
    /\ shown' = <<>>
    /\ plan_payload' = <<>>
    /\ UNCHANGED <<gpc, goal, freq, weeks, week_num, day, sessions_generated,
                   training_weeks, week_sessions>>
    /\ UNCHANGED <<form, user_profile, rng, metVars, webVars>>

(***************************************************************************)
(* SpecMain: the script run twice on a form drawn from a bounded set, the  *)
(* service answering each query in any of the ways of MainResponses.       *)
(***************************************************************************)
MaxMainSeed == 1

InitMain ==
    /\ mpc = "form"
    /\ form \in Forms
    /\ analises = <<>>
    /\ research_payload = <<>>
    /\ plan_markdown = <<>>
    /\ shown = <<>>
    /\ run = 1
    /\ first_structure = <<>>
    /\ PlanIdle
    /\ MetricsIdle
    /\ SearchIdle
    /\ rng \in {SeedState(s) : s \in 0..(MaxMainSeed - 1)}
    /\ user_profile = [primary_goal |-> <<>>, training_frequency |-> 1]

NextMain ==
    \/ MainSubmit
    \/ MainSearch
    \/ MainPlan
    \/ MainShow
    \/ MainRerun

SpecMain == InitMain /\ [][NextMain]_vars

(***************************************************************************)
(* C10: in a run of main on a valid profile, whatever each of the three    *)
(* search_web calls returns (results, the empty list or the error          *)
(* sentinel), all three queries are recorded, generate_plan is reached and *)
(* executed, the text shown is the rendering of the plan it returned, and  *)
(* the plan's structure (weeks, sessions per week, split names and         *)
(* focuses, prescriptions) is the one the profile alone determines: it is  *)
(* the same in a second run of the same form, whose searches may answer    *)
(* differently.                                                            *)
(***************************************************************************)
ValidForm == form.height_input.kind # "invalid"

\* the run is past the search loop, or over
PastSearch == run >= 1 /\ mpc \in {"show", "ended"}

\* the structure of the plan of a profile, computed apart from any run
StructureOf(profile) ==
    PlanStructure(generate_plan(profile, <<>>, SeedState(0)).plan)

C10_PlanIndependentOfSearch ==
    (PastSearch /\ ValidForm) =>
        /\ Len(research_payload) = 3
        /\ plan_payload # <<>>
        /\ (mpc = "show" =>
               /\ plan_markdown = render_plan_markdown(plan_payload[1])
               /\ PlanStructure(plan_payload[1]) = StructureOf(ProfileOf(form)))
        /\ (mpc = "ended" =>
               /\ shown # <<>>
               /\ shown[Len(shown)] = [call |-> "markdown", text |-> plan_markdown])
        /\ (run = 2 =>
               /\ first_structure # <<>>
               /\ PlanStructure(plan_payload[1]) = first_structure[1].structure)

\* a second run whose three searches all returned results has ended after a
\* first run whose three searches all failed, with a twelve-session plan
C10_Witness ==
    /\ run = 2
    /\ mpc = "ended"
    /\ ValidForm
    /\ first_structure # <<>>
    /\ first_structure[1].all_sentinel
    /\ Len(research_payload) = 3
    /\ \A i \in 1..3 :
          /\ research_payload[i].results # <<>>
          /\ research_payload[i].results[1].title # "Erro na pesquisa"
    /\ plan_payload # <<>>
    /\ Len(FlattenWeeks(plan_payload[1].training_weeks)) = total_sessions

(***************************************************************************)
(* SpecBoth: ferramenta_matematica_treino and generate_plan started on the *)
(* same user profile and interleaved in every way: the metrics call runs   *)
(* before, between any two steps of, or after the scheduling loop.         *)
(***************************************************************************)
\* " FORCA ": a key of the tables only once trimmed and lower-cased
FORCA_PADDED == <<" ","F","O","R","C","A"," ">>

BothProfiles ==
    [age : {25},
     weight_kg : {750},
     training_frequency : {3, 5},
     primary_goal : {HIPERTROFIA, FORCA, FORCA_PADDED, FORCA_CEDILHA, CONDICIONAMENTO},
     experience_level : {INICIANTE, <<"A","v","a","n","ç","a","d","o">>},
     height_cm : {Absent, Some(175)}]

\* the keyword arguments main takes from the profile (lines 689-696)
ArgsOf(profile) ==
    [age |-> profile.age,
     weight_kg |-> profile.weight_kg,
     training_frequency |-> profile.training_frequency,
     primary_goal |-> profile.primary_goal,
     height_cm |-> profile.height_cm,
     experience_level |-> profile.experience_level]

InitBoth ==
    /\ gpc = "call"
    /\ goal = <<>>
    /\ freq = 0
    /\ weeks = 0
    /\ week_num = 0
    /\ day = 0
    /\ sessions_generated = 0
    /\ training_weeks = <<>>
    /\ week_sessions = <<>>
    /\ plan_payload = <<>>
    /\ rng \in {SeedState(s) : s \in 0..(MaxSeed - 1)}
    /\ user_profile \in BothProfiles
    /\ fpc = "call"
    /\ fm_args = ArgsOf(user_profile)
    /\ fm_result = <<>>
    /\ SearchIdle
    /\ MainIdle

NextBoth ==
    \/ GeneratePlanEnter
    \/ WeekIter
    \/ DayBreak
    \/ EmitSession
    \/ DayLoopEnd
    \/ WeekAppend
    \/ BuildPayload
    \/ MetricsCall

SpecBoth == InitBoth /\ [][NextBoth]_vars

(***************************************************************************)
(* C11: in every interleaving of the two functions on one profile, the     *)
(* analytics record is the one the profile's fields determine, the plan is *)
(* the one generate_plan returns for the profile whatever analytics record *)
(* it is handed (none, or the computed one), its structure is the one the  *)
(* profile determines, and the profile still holds the values both         *)
(* functions were started with.                                            *)
(***************************************************************************)
\* the analytics record of a profile, computed apart from any run
AnalyticsOf(profile) ==
    ferramenta_matematica_treino(profile.age, profile.weight_kg,
                                 profile.training_frequency, profile.primary_goal,
                                 profile.height_cm, profile.experience_level)

C11_MetricsAndPlanIndependent ==
    /\ user_profile \in BothProfiles
    /\ fm_args = ArgsOf(user_profile)
    /\ (fpc = "done" => fm_result = Some(AnalyticsOf(user_profile)))
    /\ (Returned =>
           /\ PlanStructure(ReturnedPlan) = StructureOf(user_profile)
           /\ \E s \in 0..(MaxSeed - 1) :
                 /\ ReturnedPlan = generate_plan(user_profile, <<>>, SeedState(s)).plan
                 /\ ReturnedPlan = generate_plan(user_profile, AnalyticsOf(user_profile),
                                                 SeedState(s)).plan)

\* both functions have returned on a " FORCA " profile: the analytics record
\* carries the normalized goal, the plan the goal as the profile holds it
C11_Witness ==
    /\ Returned
    /\ fpc = "done"
    /\ user_profile.primary_goal = FORCA_PADDED
    /\ fm_result[1].goal = FORCA
    /\ ReturnedPlan.overview.primary_goal = FORCA_PADDED

(***************************************************************************)
(* SpecInsights: the metrics of a request and the text main shows for them *)
(* (lines 726-727), on weights and heights drawn from bounded sets.  A     *)
(* height is absent (the field left blank) or the number typed, in whole   *)
(* centimetres; the form bounds the weight (35 to 250 kg) and not the      *)
(* height.                                                                 *)
(***************************************************************************)
InsightArgs ==
    [age : {25},
     weight_kg : {350, 750},
     training_frequency : {3, 4},
     primary_goal : {HIPERTROFIA, EMAGRECIMENTO, FORCA_CEDILHA, CONDICIONAMENTO},
     height_cm : {Absent, Some(0), Some(175), Some(8366), Some(9000)},
     experience_level : {INICIANTE, <<"a","v","a","n","ç","a","d","o">>}]

\* st.subheader("Insights analíticos"); st.markdown(formatar_analises(analises))
ShowInsights ==
    /\ fpc = "done"
    /\ shown = <<>>
    /\ shown' = << [call |-> "subheader", text |-> <<"Insights analíticos">>],
                   [call |-> "markdown", text |-> formatar_analises(fm_result[1])] >>
    /\ UNCHANGED <<mpc, form, analises, research_payload, plan_markdown, run,
                   first_structure, planVars, metVars, webVars>>

InitInsights ==
    /\ fpc = "call"
    /\ fm_args \in InsightArgs
    /\ fm_result = <<>>
    /\ PlanIdle
    /\ SearchIdle
    /\ MainIdle
    /\ rng = SeedState(0)
    /\ user_profile = [primary_goal |-> <<>>, training_frequency |-> 1]

NextInsights ==
    \/ MetricsCall
    \/ ShowInsights

SpecInsights == InitInsights /\ [][NextInsights]_vars

(***************************************************************************)
(* C12: the text shown for a request has no BMI line when no height was    *)
(* supplied; when a height above zero was supplied it has a BMI line with  *)
(* round(weight_kg / (height_cm/100)^2, 2), the value the analytics record *)
(* holds; and the record's bmi is null exactly when no height was          *)
(* supplied.                                                               *)
(***************************************************************************)
\* text begins with the pieces of prefix
StartsWith(text, prefix) ==
    /\ Len(text) >= Len(prefix)
    /\ SubSeq(text, 1, Len(prefix)) = prefix

\* the lines of the insights text that are BMI lines
BmiLines(a) ==
    SelectSeq(AnalisesLines(a), LAMBDA l : StartsWith(l, <<"- IMC aproximado: ">>))

\* round(weight_kg / (height_cm/100)^2, 2) in hundredths, weight in tenths of kg
RoundedBmi(weight_kg, height_cm) == RoundDiv(weight_kg * 100000, height_cm * height_cm)

C12_BmiLineIffHeight ==
    shown # <<>> =>
        LET a == fm_result[1]
            h == fm_args.height_cm
        IN /\ shown[2].text = formatar_analises(a)
           /\ (a.bmi = Absent <=> h = Absent)
           /\ (h = Absent => BmiLines(a) = <<>>)
           /\ (h # Absent /\ h[1] > 0 =>
                  /\ a.bmi = Some(RoundedBmi(fm_args.weight_kg, h[1]))
                  /\ BmiLines(a) = << <<"- IMC aproximado: ">> \o Dec2(a.bmi[1]) >>)

(***************************************************************************)
(* C13: for every frequency 1..MaxFreq and at every position of the        *)
(* scheduling loop, sessions_generated is the number of sessions emitted   *)
(* so far and is at most 12; for a frequency above 12 the returned plan    *)
(* has macrocycle_length_weeks = 1 and a single week whose 12 sessions     *)
(* carry the days 1..12 in order, so no session exists for a later slot.   *)
(***************************************************************************)
DaysOf(sessions) == [i \in 1..Len(sessions) |-> sessions[i].day]

C13_CounterMatchesEmitted ==
    /\ (gpc \notin {"idle", "call"} =>
           /\ sessions_generated = Len(Emitted)
           /\ sessions_generated <= total_sessions
           /\ \A i \in 1..Len(Emitted) : Emitted[i].day \in 1..freq)
    /\ ((Returned /\ freq > total_sessions) =>
           /\ ReturnedPlan.overview.macrocycle_length_weeks = 1
           /\ Len(ReturnedPlan.training_weeks) = 1
           /\ DaysOf(ReturnedPlan.training_weeks[1].sessions)
                 = [i \in 1..total_sessions |-> i])

\* a plan was returned for frequency 13: one week, the last session on day 12
C13_Witness ==
    /\ Returned
    /\ freq = 13
    /\ sessions_generated = 12
    /\ Len(ReturnedPlan.training_weeks) = 1
    /\ Len(ReturnedPlan.training_weeks[1].sessions) = 12
    /\ ReturnedPlan.training_weeks[1].sessions[12].day = 12

(***************************************************************************)
(* SpecRender: render_plan_markdown called on a plan: either a plan        *)
(* generate_plan returned, or a dictionary in which each of the six        *)
(* sections is missing, empty, or filled in.                               *)
(***************************************************************************)
\* a session with every optional part filled in
FullSession ==
    [day |-> 1, name |-> "Treino A", focus |-> "Peito", resumo |-> "Resumo do dia",
     exercises |-> << [exercise |-> "Supino reto", sets |-> 4, reps |-> "8-12",
                       rest |-> "60s", notes |-> "carga leve"],
                      [exercise |-> "Remada curvada", sets |-> 3, reps |-> "10",
                       rest |-> "", notes |-> ""] >>,
     conditioning |-> "10 min de bicicleta", mobility |-> "Alongar ombros",
     progression |-> "Subir a carga"]

\* a session whose optional parts are empty or None
BareSession ==
    [day |-> 2, name |-> "", focus |-> "", resumo |-> "", exercises |-> <<>>,
     conditioning |-> None, mobility |-> None, progression |-> None]

\* a session whose optional keys are missing
KeylessSession == [day |-> 3]

SmallWeeks ==
    << [week |-> 1, focus |-> <<"Base">>,
        sessions |-> <<FullSession, BareSession, KeylessSession>>],
       [week |-> 2, focus |-> <<>>, sessions |-> <<>>] >>

\* for each key: no entry, an entry with an empty value, an entry with content
SectionChoices ==
    [overview : {<<>>, <<[x \in {} |-> 0]>>,
                 <<[primary_goal |-> FORCA, focus_points |-> <<FORCA, <<"postura">> >>,
                    macrocycle_length_weeks |-> 2]>>},
     guidelines : {<<>>, << <<>> >>, << <<"Aqueça antes", "Hidrate-se">> >>},
     training_weeks : {<<>>, << <<>> >>, <<SmallWeeks>>},
     recovery : {<<>>, << <<>> >>, << <<"Durma bem">> >>},
     nutrition_tips : {<<>>, << <<>> >>, << <<"Beba água", "Coma proteína">> >>},
     progression_strategy : {<<>>, <<"">>, <<"Aumente a carga aos poucos">>}]

SectionKeys ==
    <<"overview", "guidelines", "training_weeks", "recovery", "nutrition_tips",
      "progression_strategy">>

\* the dictionary holding the keys for which an entry was chosen
DictOf(choice) ==
    [k \in {SectionKeys[i] : i \in {j \in 1..Len(SectionKeys) :
                                        choice[SectionKeys[j]] # <<>>}}
        |-> choice[k][1]]

\* plans generate_plan returns
GeneratedPlans ==
    {generate_plan([primary_goal |-> g, training_frequency |-> f], <<>>,
                   SeedState(0)).plan :
        g \in RecognizedGoals \cup {FORCA_CEDILHA}, f \in {5, MaxFreq}}

RenderInputs == {DictOf(c) : c \in SectionChoices} \cup GeneratedPlans

\* plan_markdown = render_plan_markdown(plan_payload)
RenderCall ==
    /\ mpc = "render"
    /\ plan_markdown' = render_plan_markdown(plan_payload[1])
    /\ mpc' = "rendered"
    /\ UNCHANGED <<form, analises, research_payload, shown, run, first_structure,
                   planVars, metVars, webVars>>

InitRender ==
    /\ mpc = "render"
    /\ form = <<>>
    /\ analises = <<>>
    /\ research_payload = <<>>
    /\ plan_markdown = <<>>
    /\ shown = <<>>
    /\ run = 0
    /\ first_structure = <<>>
    /\ gpc = "done"
    /\ goal = <<>>
    /\ freq = 0
    /\ weeks = 0
    /\ week_num = 0
    /\ day = 0
    /\ sessions_generated = 0
    /\ training_weeks = <<>>
    /\ week_sessions = <<>>
    /\ plan_payload \in {Some(p) : p \in RenderInputs}
    /\ MetricsIdle
    /\ SearchIdle
    /\ rng = SeedState(0)
    /\ user_profile = [primary_goal |-> <<>>, training_frequency |-> 1]

NextRender == RenderCall

SpecRender == InitRender /\ [][NextRender]_vars

(***************************************************************************)
(* C14: the text render_plan_markdown returns has a section header for     *)
(* exactly the sections whose list or field is there and not empty, in the *)
(* order overview, guidelines, weeks, recovery, nutrition, progression;    *)
(* a session has an exercises block and conditioning, mobility and         *)
(* progression lines only when it has the content for them; and for a plan *)
(* of generate_plan the weeks section has one header per week, one header  *)
(* per session and one line "- <exercise> <sets>x <reps> descanso <rest>"  *)
(* per prescription, all in plan order.                                    *)
(***************************************************************************)
\* the positions of the line separators of a text
NewlineAt(text) == {i \in 1..Len(text) : text[i] = "\n"}

\* the elements of a set of numbers in increasing order
Ascending(S) ==
    [k \in 1..Cardinality(S) |-> CHOOSE x \in S : Cardinality({y \in S : y < x}) = k - 1]

\* text.split("\n") for a text made by "\n".join of at least one line
LinesOf(text) ==
    IF text = <<>> THEN <<>>
    ELSE LET starts == Ascending({1} \cup {i + 1 : i \in NewlineAt(text)})
             ends == Ascending(NewlineAt(text) \cup {Len(text) + 1})
         IN [k \in 1..Len(starts) |-> SubSeq(text, starts[k], ends[k] - 1)]

SectionHeader ==
    [overview |-> "## Visão geral", guidelines |-> "## Diretrizes",
     training_weeks |-> "## Semanas de treino", recovery |-> "## Recuperação",
     nutrition_tips |-> "## Dicas de nutrição",
     progression_strategy |-> "## Estratégia de progressão"]

IsSectionHeader(line) ==
    Len(line) = 1 /\ line[1] \in {SectionHeader[SectionKeys[i]] : i \in 1..Len(SectionKeys)}

\* the plan has the key and its value is not empty
Filled(plan, k) ==
    /\ k \in DOMAIN plan
    /\ IF k = "progression_strategy" THEN plan[k] # ""
       ELSE IF k = "overview" THEN DOMAIN plan[k] # {}
       ELSE plan[k] # <<>>

ExpectedHeaders(plan) ==
    LET filled == SelectSeq(SectionKeys, LAMBDA k : Filled(plan, k))
    IN [i \in 1..Len(filled) |-> <<SectionHeader[filled[i]]>>]

\* the lines after the weeks header up to the next section header
WeekSection(lines) ==
    LET at == {i \in 1..Len(lines) : lines[i] = <<SectionHeader.training_weeks>>}
    IN IF at = {} THEN <<>>
       ELSE LET first == CHOOSE i \in at : TRUE
                later == {j \in (first + 1)..Len(lines) : IsSectionHeader(lines[j])}
                stop == IF later = {} THEN Len(lines) + 1
                        ELSE CHOOSE j \in later : \A k \in later : j <= k
            IN SubSeq(lines, first + 1, stop - 1)

\* the lines that begin with the piece lead
Leading(lines, lead) == SelectSeq(lines, LAMBDA l : l[1] = lead)

ExercisesOf(session) ==
    IF "exercises" \in DOMAIN session THEN session.exercises ELSE <<>>

AllSessions(plan) ==
    IF "training_weeks" \in DOMAIN plan THEN FlattenWeeks(plan.training_weeks) ELSE <<>>

AllPrescriptions(plan) ==
    ConcatAll([i \in 1..Len(AllSessions(plan)) |-> ExercisesOf(AllSessions(plan)[i])])

\* the sessions that have a text under key k
WithNote(plan, k) ==
    SelectSeq(AllSessions(plan), LAMBDA ss : k \in DOMAIN ss /\ ss[k] \notin {"", None})

C14_RenderSections ==
    mpc = "rendered" =>
        LET plan == plan_payload[1]
            lines == LinesOf(plan_markdown)
            section == WeekSection(lines)
            sessions == AllSessions(plan)
            prescriptions == AllPrescriptions(plan)
        IN /\ SelectSeq(lines, IsSectionHeader) = ExpectedHeaders(plan)
           /\ (~Filled(plan, "training_weeks") => section = <<>>)
           /\ Len(Leading(section, "#### ")) = Len(sessions)
           /\ Len(Leading(section, "##### Exercícios"))
                 = Len(SelectSeq(sessions, LAMBDA ss : ExercisesOf(ss) # <<>>))
           /\ Len(Leading(section, "- ")) = Len(prescriptions)
           /\ Len(Leading(section, "- **Condicionamento:** "))
                 = Len(WithNote(plan, "conditioning"))
           /\ Len(Leading(section, "- **Mobilidade:** ")) = Len(WithNote(plan, "mobility"))
           /\ Len(Leading(section, "- **Progressão:** "))
                 = Len(WithNote(plan, "progression"))
           /\ (plan \in GeneratedPlans =>
                  /\ Leading(section, "### Semana ") =
                        [i \in 1..Len(plan.training_weeks) |->
                            <<"### Semana ", ToString(plan.training_weeks[i].week), ": ">>
                            \o plan.training_weeks[i].focus]
                  /\ Leading(section, "#### ") =
                        [i \in 1..Len(sessions) |->
                            <<"#### ", sessions[i].name, EnDash, sessions[i].focus>>]
                  /\ Leading(section, "- ") =
                        [i \in 1..Len(prescriptions) |->
                            <<"- ", prescriptions[i].exercise, " ",
                              ToString(prescriptions[i].sets), "x", " ",
                              prescriptions[i].reps, " ", "descanso ",
                              prescriptions[i].rest>>])

\* a dictionary with weeks and recovery only, the other four sections empty or
\* missing, was rendered
C14_Witness ==
    /\ mpc = "rendered"
    /\ DOMAIN plan_payload[1] = {"overview", "guidelines", "training_weeks", "recovery"}
    /\ plan_payload[1].guidelines = <<>>
    /\ DOMAIN plan_payload[1].overview = {}
    /\ SelectSeq(LinesOf(plan_markdown), IsSectionHeader)
          = << <<"## Semanas de treino">>, <<"## Recuperação">> >>
    /\ Len(Leading(WeekSection(LinesOf(plan_markdown)), "#### ")) = 3

(***************************************************************************)
(* C15: in a run of main, each of the four goal options of the form is     *)
(* taken as its own goal by ferramenta_matematica_treino (its preset's rep *)
(* range and intensity) and by generate_plan (its split templates and its  *)
(* prescription; for the strength option rep range 3-6, the strength       *)
(* splits and 4 sets of 4-6 with 2-3min rest), and each of the three       *)
(* experience options selects its own entry of the volume table.           *)
(***************************************************************************)
\* the key each goal option stands for
GoalOfOption ==
    (<<"H","i","p","e","r","t","r","o","f","i","a">> :> HIPERTROFIA)
    @@ (<<"E","m","a","g","r","e","c","i","m","e","n","t","o">> :> EMAGRECIMENTO)
    @@ (<<"F","o","r","ç","a">> :> FORCA)
    @@ (<<"C","o","n","d","i","c","i","o","n","a","m","e","n","t","o">> :> CONDICIONAMENTO)

\* the key each experience option stands for
LevelOfOption ==
    (<<"I","n","i","c","i","a","n","t","e">> :> INICIANTE)
    @@ (<<"I","n","t","e","r","m","e","d","i","á","r","i","o">> :> INTERMEDIARIO)
    @@ (<<"A","v","a","n","ç","a","d","o">> :> AVANCADO)

C15_FormOptionsRecognized ==
    (PastSearch /\ ValidForm) =>
        LET g == GoalOfOption[form.primary_goal_display]
            lv == LevelOfOption[form.experience_display]
            sessions == FlattenWeeks(plan_payload[1].training_weeks)
        IN /\ analises[1].recommended_rep_range = goal_presets[g].rep_range
           /\ analises[1].recommended_intensity = goal_presets[g].intensity
           /\ analises[1].volume_per_session = volume_table[lv]
           /\ \A k \in 1..Len(sessions) :
                 /\ sessions[k].name
                       = GoalSplitList(g)[((k - 1) % Len(GoalSplitList(g))) + 1].name
                 /\ \A e \in 1..Len(sessions[k].exercises) :
                       <<sessions[k].exercises[e].sets, sessions[k].exercises[e].reps,
                         sessions[k].exercises[e].rest>> = GoalPrescription(g)

(***************************************************************************)
(* C16: whatever the random selection, a hipertrofia or forca session has, *)
(* for every target muscle group of its split, at least 1 and at most 2    *)
(* exercises of that group's catalog, and no exercise name twice.          *)
(***************************************************************************)
\* the positions of a session's exercises that come from muscle m's catalog
FromGroup(session, m) ==
    {e \in 1..Len(session.exercises) :
        session.exercises[e].exercise \in Range(exercise_dict[m])}

C16_EveryGroupRepresented ==
    goal \in MuscleGoals =>
        \A k \in 1..Len(Emitted) :
            /\ \A m \in Range(SplitNamed(goal, Emitted[k].name).muscles) :
                  Cardinality(FromGroup(Emitted[k], m)) \in 1..2
            /\ \A e1, e2 \in 1..Len(Emitted[k].exercises) :
                  Emitted[k].exercises[e1].exercise = Emitted[k].exercises[e2].exercise
                      => e1 = e2

====
